---- MODULE Spec2Model ----
(***************************************************************************)
(* The two custom Struct formatters of the nl80211 family descriptor       *)
(* (libnl++/protocols/generic/families/Nl80211.cpp): the information       *)
(* elements formatter and the nl80211_pattern_support formatter, each run  *)
(* by concurrent decode calls over one attribute payload, next to the      *)
(* schema tables the family descriptor is constructed with.                *)
(*                                                                         *)
(* A std::stringstream is a sequence of character codes (ASCII).           *)
(***************************************************************************)
EXTENDS Integers, Sequences, FiniteSets, TLC

\* ------------------------------------------------------------------ bounds

\* Longest information-elements payload enumerated over IEBytes.
MaxLen == 5

\* Bytes a nl80211_pattern_support payload may run past the structure.
MaxExtra == 2

\* Byte values of the enumerated information-elements payloads: the SSID
\* element id and the empty length (0), another id and a short length (1),
\* and a printable character ('t'), which as a length is above any
\* enumerated payload's.
IEBytes == {0, 1, 116}

\* The payload of the scenario "one SSID element with bytes test".
SsidTestPayload == << 0, 4, 116, 101, 115, 116 >>

\* An SSID element with the bytes at the edges of the printable range
\* (0x1F, 0x20, 0x7E, 0x7F) around an embedded NUL, and a 't'.
SsidBoundaryPayload == << 0, 6, 31, 32, 0, 126, 127, 116 >>

\* Payloads decoded besides the enumerated ones: the scenario, an SSID
\* element and another element followed by a truncated one, longer
\* elements, headers declaring the largest length (255), and an SSID
\* element of one byte above the ASCII range.
ScenarioPayloads ==
    { SsidTestPayload,
      << 0, 2, 116, 1, 1, 0, 1, 255 >>,
      << 1, 2, 0, 116, 0, 1, 116, 0, 9 >>,
      << 0, 255 >>,
      << 1, 0, 7, 255, 116 >>,
      << 0, 1, 192 >>,
      SsidBoundaryPayload }

\* Values of the 32-bit fields of the enumerated nl80211_pattern_support
\* payloads (one of them above one byte).
FieldVals == {0, 7, 258}

\* The decode calls that run concurrently.
Calls == {"c1", "c2"}

\* Largest attribute id looked up besides the ids the tables use.
MaxId == 3

\* Most attributes of a decoded top-level stream.
MaxAttrs == 2

\* Longest buffer a BoundedView is built over.
MaxViewLen == 4

\* ------------------------------------------------------- program constants

kCompactIE == TRUE

WLAN_EID_SSID == 0

\* sizeof(IEHeader): a uint8_t elementId and a uint8_t length, packed.
SizeofIEHeader == 2

\* sizeof(nl80211_pattern_support): four __u32 fields.
SizeofPatternSupport == 16

\* ----------------------------------------------------------- schema tables

\* static const AttributeMap iftypes, in NL80211_IFTYPE_* order.
IfTypesTable ==
    << "UNSPECIFIED", "ADHOC", "STATION", "AP", "AP_VLAN", "WDS", "MONITOR",
       "MESH_POINT", "P2P_CLIENT", "P2P_GO", "P2P_DEVICE", "OCB", "NAN" >>

\* The attribute definitions of the family table that carry iftypes or a
\* custom formatter: name |-> [type, ops].
AttributeTable ==
    [ SUPPORTED_IFTYPES    |-> [type |-> "Nested", ops |-> "iftypes"],
      TYPES                |-> [type |-> "Nested", ops |-> "iftypes"],
      SOFTWARE_IFTYPES     |-> [type |-> "Nested", ops |-> "iftypes"],
      INFORMATION_ELEMENTS |-> [type |-> "Struct", ops |-> "informationElementsToStream"],
      BEACON_IES           |-> [type |-> "Struct", ops |-> "informationElementsToStream"],
      PKT_PATTERN          |-> [type |-> "Struct", ops |-> "nl80211_pattern_supportToStream"] ]

\* The head of the command table passed to GenericMessageBase.
CommandTable ==
    << "UNSPEC", "GET_WIPHY", "SET_WIPHY", "NEW_WIPHY", "DEL_WIPHY",
       "GET_INTERFACE", "SET_INTERFACE" >>

\* std::nullopt as an AttributeMap key: the wildcard entry.
NoId == -1

\* The built-in definition of an attribute no entry matches.
UnknownDefinition == [name |-> "", type |-> "Default", ops |-> ""]

\* iftypes as an AttributeMap: NL80211_IFTYPE_* |-> {name, DataType::Flag}.
IfTypesMap ==
    [id \in 0..(Len(IfTypesTable) - 1) |->
        [name |-> IfTypesTable[id + 1], type |-> "Flag", ops |-> ""]]

\* The child map of SCAN_FREQUENCIES: {std::nullopt, {"FQ", DataType::Uint}}.
ScanFrequenciesMap == NoId :> [name |-> "FQ", type |-> "Uint", ops |-> ""]

\* The child map of SCAN_SSIDS with its entry keyed by the id 0.
ScanSsidsMapKeyedZero == 0 :> [name |-> "SSID", type |-> "String", ops |-> ""]

\* The child map of SCAN_SSIDS: {std::nullopt, {"SSID", DataType::String}}.
ScanSsidsMap == NoId :> [name |-> "SSID", type |-> "String", ops |-> ""]

\* AttributeMap{}: the child map of VENDOR_EVENTS.
EmptyMap == << >>

\* The child maps of the Nested definitions, by the name a definition
\* carries in ops.
ChildMaps ==
    [ iftypes |-> IfTypesMap, scan_frequencies |-> ScanFrequenciesMap,
      scan_ssids |-> ScanSsidsMap, empty |-> EmptyMap ]

\* VENDOR_EVENTS declared the way VENDOR_DATA is: DataType::Raw.
VendorEventsAsRaw == [name |-> "VENDOR_EVENTS", type |-> "Raw", ops |-> "empty"]

\* {"VENDOR_EVENTS", DataType::Nested, AttributeMap{}, Flags::Verbose}
VendorEventsDefinition ==
    [name |-> "VENDOR_EVENTS", type |-> "Nested", ops |-> "empty"]

\* The top-level attribute map of the family, by NL80211_ATTR_* value:
\* the attributes decoded here.
TopLevelMap ==
    32 :> [name |-> "SUPPORTED_IFTYPES", type |-> "Nested", ops |-> "iftypes"]
    @@ 42 :> [name |-> "IE", type |-> "Default", ops |-> ""]
    @@ 43 :> [name |-> "MAX_NUM_SCAN_SSIDS", type |-> "Uint", ops |-> ""]
    @@ 45 :> [name |-> "SCAN_SSIDS", type |-> "Nested", ops |-> "scan_ssids"]
    @@ 46 :> [name |-> "GENERATION", type |-> "Uint", ops |-> ""]
    @@ 198 :> VendorEventsDefinition

\* AttributeMap::operator[] taking the wildcard entry before the explicit one.
resolveWildcardFirst(map, id) ==
    IF NoId \in DOMAIN map THEN map[NoId]
    ELSE IF id \in DOMAIN map THEN map[id]
    ELSE UnknownDefinition

\* resolve(id) on an AttributeMap: the explicit entry, else the wildcard
\* entry, else the built-in unknown-attribute definition.
resolve(map, id) ==
    IF id \in DOMAIN map THEN map[id]
    ELSE IF NoId \in DOMAIN map THEN map[NoId]
    ELSE UnknownDefinition

\* Nl80211::Nl80211: the schema as constructed.
ConstructedSchema ==
    [ commands |-> CommandTable, attributes |-> AttributeTable,
      iftypes |-> IfTypesTable ]

\* ------------------------------------------------------------------- state

VARIABLES
    schema,     \* the family descriptor's tables (process-wide)
    compactIE,  \* the build's value of kCompactIE (if constexpr)
    attrName,   \* the attribute definition the payload is decoded under
    payload,    \* attr.data<uint8_t>().getRaw(): the attribute's payload bytes
    pc,         \* per call: "start", "loop", "close", "done"
    offset,     \* per call: size_t offset of the for loop
    first,      \* per call: the flag captured by printComma
    ss,         \* per call: the std::stringstream written to
    entries,    \* per call: the entries written so far, in order
    touched,    \* per call: the payload indices (0-based) read or sliced
    iters,      \* per call: loop iterations that did not exit
    stream,     \* decoder: the message bytes handed to the decoder
    stack,      \* decoder: the nesting levels being decoded, innermost last
    result,     \* decoder: the group returned, once the decoder has returned
    reads,      \* decoder: the indices of stream (0-based) read or sliced
    amap,       \* lookup: the AttributeMap looked into
    rid,        \* lookup: the attribute id looked up
    rdef,       \* lookup: the definition resolve returned
    view,       \* view: the BoundedView at hand
    req         \* view: the last sub-view request and its outcome

\* The state of the two Struct formatters and of the schema they run under.
formatterVars == << schema, compactIE, attrName, payload, pc, offset, first, ss,
                    entries, touched, iters >>

\* The state of the attribute-stream decoder.
decodeVars == << stream, stack, result, reads >>

\* The state of an attribute lookup.
resolveVars == << amap, rid, rdef >>

\* The state of a BoundedView and the requests made of it.
viewVars == << view, req >>

\* What the formatters leave alone.
engineVars == << decodeVars, resolveVars, viewVars >>

vars == << formatterVars, engineVars >>

\* ----------------------------------------------------------------- helpers

\* Text literals of the formatters.
ChLBrace == << 123 >>
ChRBrace == << 125 >>
ChQuote == << 34 >>
ChComma == << 44 >>
ChColon == << 58 >>
ChSlash == << 47 >>
StrSep == << 44, 32 >>
StrLen == << 108, 101, 110, 61 >>
StrCrc == << 99, 114, 99, 61 >>
StrErr == << 69, 82, 82 >>
StrSsid == << 83, 83, 73, 68, 61, 34 >>
StrInvalid == << 105, 110, 118, 97, 108, 105, 100, 32,
                 115, 116, 114, 117, 99, 116, 117, 114, 101 >>

\* operator<< of an unsigned integer under std::dec.
Dec(value) ==
    LET digits[n \in Nat] ==
            IF n < 10 THEN << 48 + n >>
            ELSE digits[n \div 10] \o << 48 + (n % 10) >>
    IN digits[value]

\* A hexadecimal digit, in lower case (no std::uppercase).
HexDigit(d) == IF d < 10 THEN 48 + d ELSE 97 + (d - 10)

\* operator<< of an unsigned integer under std::hex.
Hex(value) ==
    LET digits[n \in Nat] ==
            IF n < 16 THEN << HexDigit(n) >>
            ELSE digits[n \div 16] \o << HexDigit(n % 16) >>
    IN digits[value]

\* std::setw(w) with the default fill ' ' and right adjustment.
SetW(w, s) == IF Len(s) >= w THEN s ELSE [i \in 1..(w - Len(s)) |-> 32] \o s

\* x ^ y on bytes.
Xor8(x, y) ==
    LET xor[a \in 0..255, b \in 0..255] ==
            IF a = 0 THEN b
            ELSE IF b = 0 THEN a
            ELSE ((a + b) % 2) + 2 * xor[a \div 2, b \div 2]
    IN xor[x, y]

\* One round of the checksum on a uint16_t: shift right, and xor the
\* polynomial 0xA001 if a 1 fell out.
CrcRound(crc) ==
    IF crc % 2 = 1
    THEN LET x == crc \div 2
             y == IF (x \div 8192) % 2 = 1 THEN x - 8192 ELSE x + 8192
             z == IF y % 2 = 1 THEN y - 1 ELSE y + 1
         IN z + 32768
    ELSE crc \div 2

\* One byte of a checksum that adds the bytes up.
CrcByteSum(crc0, byte) == (crc0 + byte) % 65536

\* One byte of the checksum: crc ^= byte, then eight rounds.
CrcByte(crc0, byte) ==
    LET shift[i \in 0..8, crc \in 0..65535] ==
            IF i = 0 THEN crc ELSE shift[i - 1, CrcRound(crc)]
        start[crc \in 0..65535] ==
            shift[8, (crc - (crc % 256)) + Xor8(crc % 256, byte)]
    IN start[crc0]

\* crc16(data): the 16-bit checksum of libnl++ (CRC-16, initial value 0).
crc16(bytes) ==
    LET crc[k \in 0..Len(bytes)] ==
            IF k = 0 THEN 0 ELSE CrcByte(crc[k - 1], bytes[k])
    IN crc[Len(bytes)]

\* isprint(c) with both ends of the range left out.
IsPrintExclusive(c) == 32 < c /\ c < 126

\* isprint(c) in the "C" locale.
IsPrint(c) == 32 <= c /\ c <= 126

\* printableOnly(str): the text sanitizer, keeping the printable bytes.
printableOnly(str) == SelectSeq(str, IsPrint)

\* bytes.len()
BytesLen == Len(payload)

\* The formatter the decoder invokes for a Struct attribute.
StructFormatter(name) == schema.attributes[name].ops

\* The indices [lo, lo + n).
Range(lo, n) == lo .. (lo + n - 1)

\* The indices of the payload, 0-based.
Extent == Range(0, BytesLen)

\* A uint32_t in host (little-endian) byte order.
LE32(v) ==
    << v % 256, (v \div 256) % 256, (v \div 65536) % 256, (v \div 16777216) % 256 >>

\* The information-elements payloads enumerated.
IEPayloads == UNION { [1..n -> IEBytes] : n \in 0..MaxLen } \cup ScenarioPayloads

\* The nl80211_pattern_support payloads enumerated: the prefixes of a
\* structure followed by MaxExtra further bytes.
PatPayloads ==
    { SubSeq(LE32(f[1]) \o LE32(f[2]) \o LE32(f[3]) \o LE32(f[4])
             \o [i \in 1..MaxExtra |-> t], 1, n) :
        f \in [1..4 -> FieldVals], t \in {0, 9},
        n \in 0..(SizeofPatternSupport + MaxExtra) }

\* -------------------------------------------------------------------- Init

\* No decoder result yet, no definition resolved yet, no request made yet.
None == [kind |-> "none"]

\* The decoder before any use.
DecodeIdle == stream = << >> /\ stack = << >> /\ result = None /\ reads = {}

\* The lookup before any use.
ResolveIdle == amap = << >> /\ rid = 0 /\ rdef = None

\* The view before any use.
ViewIdle == view = [ok |-> TRUE, base |-> 0, len |-> 0] /\ req = None

\* The decoder, the lookup and the view before any use.
EngineIdle == DecodeIdle /\ ResolveIdle /\ ViewIdle

\* The formatters before any call, with no payload at hand.
FormatterIdle ==
    /\ schema = ConstructedSchema
    /\ compactIE = kCompactIE
    /\ attrName = "INFORMATION_ELEMENTS"
    /\ payload = << >>
    /\ pc = [c \in Calls |-> "start"]
    /\ offset = [c \in Calls |-> 0]
    /\ first = [c \in Calls |-> TRUE]
    /\ ss = [c \in Calls |-> << >>]
    /\ entries = [c \in Calls |-> << >>]
    /\ touched = [c \in Calls |-> {}]
    /\ iters = [c \in Calls |-> 0]

Init ==
    /\ schema = ConstructedSchema
    /\ compactIE \in BOOLEAN
    /\ \/ attrName = "INFORMATION_ELEMENTS" /\ payload \in IEPayloads
       \/ attrName = "PKT_PATTERN" /\ payload \in PatPayloads
    /\ pc = [c \in Calls |-> "start"]
    /\ offset = [c \in Calls |-> 0]
    /\ first = [c \in Calls |-> TRUE]
    /\ ss = [c \in Calls |-> << >>]
    /\ entries = [c \in Calls |-> << >>]
    /\ touched = [c \in Calls |-> {}]
    /\ iters = [c \in Calls |-> 0]
    /\ EngineIdle

\* ------------------------------------------- informationElementsToStream

\* The bytes after '{': the payload's length and checksum when kCompactIE.
CompactPrefix ==
    IF compactIE
    THEN StrLen \o Dec(BytesLen) \o StrSep
         \o StrCrc \o SetW(4, Hex(crc16(payload))) \o StrSep
    ELSE << >>

\* The entry of the formatter looking its definition up with a map's
\* operator[], which inserts a default entry into the shared table.
IEBeginInsertsDefault(c) ==
    /\ pc[c] = "start"
    /\ StructFormatter(attrName) = "informationElementsToStream"
    /\ schema' = [schema EXCEPT !.iftypes = Append(@, "")]
    /\ ss' = [ss EXCEPT ![c] = @ \o ChLBrace \o CompactPrefix]
    /\ first' = [first EXCEPT ![c] = TRUE]
    /\ offset' = [offset EXCEPT ![c] = 0]
    /\ pc' = [pc EXCEPT ![c] = "loop"]
    /\ UNCHANGED << engineVars, compactIE, attrName, payload, entries, touched, iters >>

\* ss << '{', the compact prefix, bool first = true, size_t offset = 0.
IEBegin(c) ==
    /\ pc[c] = "start"
    /\ StructFormatter(attrName) = "informationElementsToStream"
    /\ ss' = [ss EXCEPT ![c] = @ \o ChLBrace \o CompactPrefix]
    /\ first' = [first EXCEPT ![c] = TRUE]
    /\ offset' = [offset EXCEPT ![c] = 0]
    /\ pc' = [pc EXCEPT ![c] = "loop"]
    /\ UNCHANGED << engineVars, schema, compactIE, attrName, payload, entries, touched, iters >>

\* printComma over a flag with static storage, shared by every call.
PrintCommaShared(c) == IF \A d \in Calls : first[d] THEN << >> ELSE StrSep

\* printComma: the separator, at every but the first entry.
PrintComma(c) == IF first[c] THEN << >> ELSE StrSep

\* remainingLen = bytes.len() - offset
RemainingLen(c) == BytesLen - offset[c]

\* The loop condition: offset < bytes.len().
LoopCond(c) == offset[c] < BytesLen

\* The loop without the header check.
HeaderFitsAlways(remainingLen) == TRUE

\* "can we fit one more header?": not (sizeof(IEHeader) > remainingLen).
HeaderFits(remainingLen) == ~(SizeofIEHeader > remainingLen)

\* The length check with the sum taken in uint8_t, where it wraps.
ElementFitsWrapped(length, remainingLen) ==
    ~((SizeofIEHeader + length) % 256 > remainingLen)

\* The length check off by one (>= for >): an element ending at the
\* payload's last byte does not fit.
ElementFitsOffByOne(length, remainingLen) ==
    ~(SizeofIEHeader + length >= remainingLen)

\* Not (sizeof(IEHeader) + ieHeader.length > remainingLen), in size_t.
ElementFits(length, remainingLen) == ~(SizeofIEHeader + length > remainingLen)

\* The offset advanced by the data length alone.
NextOffsetNoHeader(off, length) == off + length

\* The offset advanced to the next 4-byte boundary, as a netlink attribute
\* stream is walked.
NextOffsetAligned(off, length) == off + 4 * ((SizeofIEHeader + length + 3) \div 4)

\* offset += sizeof(IEHeader) + ieHeader.length
NextOffset(off, length) == off + SizeofIEHeader + length

\* memcpy(&ieHeader, ptr, sizeof(IEHeader)): the header at offset off. Bytes
\* copied from outside the payload have any value.
HeadersAt(off) ==
    { [elementId |-> i, length |-> l] :
        i \in (IF off \in Extent THEN {payload[off + 1]} ELSE IEBytes),
        l \in (IF off + 1 \in Extent THEN {payload[off + 2]} ELSE IEBytes) }

\* Buffer<uint8_t> data(ptr + sizeof(IEHeader), length): the bytes of the
\* slice [lo, lo + n). Bytes outside the payload have any one value.
SlicesAt(lo, n) ==
    { [i \in 1..n |-> IF lo + i - 1 \in Extent THEN payload[lo + i] ELSE g] :
        g \in IEBytes }

\* The loop condition fails: the for loop ends.
IELoopEnd(c) ==
    /\ pc[c] = "loop"
    /\ ~LoopCond(c)
    /\ pc' = [pc EXCEPT ![c] = "close"]
    /\ UNCHANGED << engineVars, schema, compactIE, attrName, payload, offset, first, ss,
                    entries, touched, iters >>

\* if (sizeof(IEHeader) > remainingLen) break;
IEPartialHeader(c) ==
    /\ pc[c] = "loop"
    /\ LoopCond(c)
    /\ ~HeaderFits(RemainingLen(c))
    /\ pc' = [pc EXCEPT ![c] = "close"]
    /\ UNCHANGED << engineVars, schema, compactIE, attrName, payload, offset, first, ss,
                    entries, touched, iters >>

\* The malformed branch without its break: the marker is written, the
\* header is stepped over and the loop goes on.
IEMalformedContinue(c) ==
    /\ pc[c] = "loop"
    /\ LoopCond(c)
    /\ HeaderFits(RemainingLen(c))
    /\ \E h \in HeadersAt(offset[c]) :
          /\ ~ElementFits(h.length, RemainingLen(c))
          /\ touched' = [touched EXCEPT ![c] = @ \cup Range(offset[c], SizeofIEHeader)]
          /\ ss' = [ss EXCEPT ![c] = @ \o PrintComma(c) \o StrErr]
          /\ entries' = [entries EXCEPT ![c] =
                Append(@, [tag |-> "ERR", at |-> offset[c], id |-> h.elementId,
                           length |-> h.length, text |-> StrErr])]
    /\ first' = [first EXCEPT ![c] = FALSE]
    /\ offset' = [offset EXCEPT ![c] = @ + SizeofIEHeader]
    /\ UNCHANGED << engineVars, schema, compactIE, attrName, payload, pc, iters >>

\* The malformed branch replacing the stream's content by the marker
\* (ss.str("ERR")) instead of appending to it.
IEMalformedDropsOutput(c) ==
    /\ pc[c] = "loop"
    /\ LoopCond(c)
    /\ HeaderFits(RemainingLen(c))
    /\ \E h \in HeadersAt(offset[c]) :
          /\ ~ElementFits(h.length, RemainingLen(c))
          /\ touched' = [touched EXCEPT ![c] = @ \cup Range(offset[c], SizeofIEHeader)]
          /\ ss' = [ss EXCEPT ![c] = StrErr]
          /\ entries' = [entries EXCEPT ![c] =
                << [tag |-> "ERR", at |-> offset[c], id |-> h.elementId,
                    length |-> h.length, text |-> StrErr] >>]
    /\ first' = [first EXCEPT ![c] = FALSE]
    /\ pc' = [pc EXCEPT ![c] = "close"]
    /\ UNCHANGED << engineVars, schema, compactIE, attrName, payload, offset, iters >>

\* The malformed branch with a return for its break: the marker is
\* written and the function is left before ss << '}'.
IEMalformedReturns(c) ==
    /\ pc[c] = "loop"
    /\ LoopCond(c)
    /\ HeaderFits(RemainingLen(c))
    /\ \E h \in HeadersAt(offset[c]) :
          /\ ~ElementFits(h.length, RemainingLen(c))
          /\ touched' = [touched EXCEPT ![c] = @ \cup Range(offset[c], SizeofIEHeader)]
          /\ ss' = [ss EXCEPT ![c] = @ \o PrintComma(c) \o StrErr]
          /\ entries' = [entries EXCEPT ![c] =
                Append(@, [tag |-> "ERR", at |-> offset[c], id |-> h.elementId,
                           length |-> h.length, text |-> StrErr])]
    /\ first' = [first EXCEPT ![c] = FALSE]
    /\ pc' = [pc EXCEPT ![c] = "done"]
    /\ UNCHANGED << engineVars, schema, compactIE, attrName, payload, offset, iters >>

\* The declared length does not fit: printComma(); ss << "ERR"; break;
IEMalformed(c) ==
    /\ pc[c] = "loop"
    /\ LoopCond(c)
    /\ HeaderFits(RemainingLen(c))
    /\ \E h \in HeadersAt(offset[c]) :
          /\ ~ElementFits(h.length, RemainingLen(c))
          /\ touched' = [touched EXCEPT ![c] = @ \cup Range(offset[c], SizeofIEHeader)]
          /\ ss' = [ss EXCEPT ![c] = @ \o PrintComma(c) \o StrErr]
          /\ entries' = [entries EXCEPT ![c] =
                Append(@, [tag |-> "ERR", at |-> offset[c], id |-> h.elementId,
                           length |-> h.length, text |-> StrErr])]
    /\ first' = [first EXCEPT ![c] = FALSE]
    /\ pc' = [pc EXCEPT ![c] = "close"]
    /\ UNCHANGED << engineVars, schema, compactIE, attrName, payload, offset, iters >>

\* The SSID branch with the data taken from ptr, not ptr + sizeof(IEHeader).
IESsidFromHeader(c) ==
    /\ pc[c] = "loop"
    /\ LoopCond(c)
    /\ HeaderFits(RemainingLen(c))
    /\ \E h \in HeadersAt(offset[c]) :
          /\ ElementFits(h.length, RemainingLen(c))
          /\ h.elementId = WLAN_EID_SSID
          /\ offset' = [offset EXCEPT ![c] = NextOffset(@, h.length)]
          /\ touched' = [touched EXCEPT ![c] =
                @ \cup Range(offset[c], SizeofIEHeader) \cup Range(offset[c], h.length)]
          /\ \E data \in SlicesAt(offset[c], h.length) :
                LET text == StrSsid \o printableOnly(data) \o ChQuote IN
                /\ ss' = [ss EXCEPT ![c] = @ \o PrintComma(c) \o text]
                /\ entries' = [entries EXCEPT ![c] =
                      Append(@, [tag |-> "SSID", at |-> offset[c],
                                 id |-> h.elementId, length |-> h.length,
                                 text |-> text])]
    /\ first' = [first EXCEPT ![c] = FALSE]
    /\ iters' = [iters EXCEPT ![c] = @ + 1]
    /\ UNCHANGED << engineVars, schema, compactIE, attrName, payload, pc >>

\* The bytes before the first NUL.
UpToNul(data) ==
    IF \E i \in 1..Len(data) : data[i] = 0
    THEN SubSeq(data, 1, (CHOOSE i \in 1..Len(data) :
                            data[i] = 0 /\ \A j \in 1..(i - 1) : data[j] # 0) - 1)
    ELSE data

\* The SSID branch with the std::string built from the pointer alone, as a
\* C string: it ends at the first NUL.
IESsidCString(c) ==
    /\ pc[c] = "loop"
    /\ LoopCond(c)
    /\ HeaderFits(RemainingLen(c))
    /\ \E h \in HeadersAt(offset[c]) :
          /\ ElementFits(h.length, RemainingLen(c))
          /\ h.elementId = WLAN_EID_SSID
          /\ offset' = [offset EXCEPT ![c] = NextOffset(@, h.length)]
          /\ touched' = [touched EXCEPT ![c] =
                @ \cup Range(offset[c], SizeofIEHeader)
                  \cup Range(offset[c] + SizeofIEHeader, h.length)]
          /\ \E data \in SlicesAt(offset[c] + SizeofIEHeader, h.length) :
                LET text == StrSsid \o printableOnly(UpToNul(data)) \o ChQuote IN
                /\ ss' = [ss EXCEPT ![c] = @ \o PrintComma(c) \o text]
                /\ entries' = [entries EXCEPT ![c] =
                      Append(@, [tag |-> "SSID", at |-> offset[c],
                                 id |-> h.elementId, length |-> h.length,
                                 text |-> text])]
    /\ first' = [first EXCEPT ![c] = FALSE]
    /\ iters' = [iters EXCEPT ![c] = @ + 1]
    /\ UNCHANGED << engineVars, schema, compactIE, attrName, payload, pc >>

\* A well-formed element with elementId == WLAN_EID_SSID:
\* ss << "SSID=\"" << printableOnly(ssid) << '"'; continue;
IESsid(c) ==
    /\ pc[c] = "loop"
    /\ LoopCond(c)
    /\ HeaderFits(RemainingLen(c))
    /\ \E h \in HeadersAt(offset[c]) :
          /\ ElementFits(h.length, RemainingLen(c))
          /\ h.elementId = WLAN_EID_SSID
          /\ offset' = [offset EXCEPT ![c] = NextOffset(@, h.length)]
          /\ touched' = [touched EXCEPT ![c] =
                @ \cup Range(offset[c], SizeofIEHeader)
                  \cup Range(offset[c] + SizeofIEHeader, h.length)]
          /\ \E data \in SlicesAt(offset[c] + SizeofIEHeader, h.length) :
                LET text == StrSsid \o printableOnly(data) \o ChQuote IN
                /\ ss' = [ss EXCEPT ![c] = @ \o PrintComma(c) \o text]
                /\ entries' = [entries EXCEPT ![c] =
                      Append(@, [tag |-> "SSID", at |-> offset[c],
                                 id |-> h.elementId, length |-> h.length,
                                 text |-> text])]
    /\ first' = [first EXCEPT ![c] = FALSE]
    /\ iters' = [iters EXCEPT ![c] = @ + 1]
    /\ UNCHANGED << engineVars, schema, compactIE, attrName, payload, pc >>

\* The branch of the other ids without the compact continue: the entry
\* ID:LENGTH/CRC16 in either build.
IEOtherAlwaysDetailed(c) ==
    /\ pc[c] = "loop"
    /\ LoopCond(c)
    /\ HeaderFits(RemainingLen(c))
    /\ \E h \in HeadersAt(offset[c]) :
          /\ ElementFits(h.length, RemainingLen(c))
          /\ h.elementId # WLAN_EID_SSID
          /\ offset' = [offset EXCEPT ![c] = NextOffset(@, h.length)]
          /\ touched' = [touched EXCEPT ![c] =
                @ \cup Range(offset[c], SizeofIEHeader)
                  \cup Range(offset[c] + SizeofIEHeader, h.length)]
          /\ \E data \in SlicesAt(offset[c] + SizeofIEHeader, h.length) :
                LET text == Dec(h.elementId) \o ChColon \o Dec(h.length)
                            \o ChSlash \o SetW(4, Hex(crc16(data))) IN
                /\ ss' = [ss EXCEPT ![c] = @ \o PrintComma(c) \o text]
                /\ entries' = [entries EXCEPT ![c] =
                      Append(@, [tag |-> "IE", at |-> offset[c],
                                 id |-> h.elementId, length |-> h.length,
                                 text |-> text])]
                /\ first' = [first EXCEPT ![c] = FALSE]
    /\ iters' = [iters EXCEPT ![c] = @ + 1]
    /\ UNCHANGED << engineVars, schema, compactIE, attrName, payload, pc >>

\* A well-formed element with another id: if constexpr (kCompactIE) continue;
\* else the entry ID:LENGTH/CRC16.
IEOther(c) ==
    /\ pc[c] = "loop"
    /\ LoopCond(c)
    /\ HeaderFits(RemainingLen(c))
    /\ \E h \in HeadersAt(offset[c]) :
          /\ ElementFits(h.length, RemainingLen(c))
          /\ h.elementId # WLAN_EID_SSID
          /\ offset' = [offset EXCEPT ![c] = NextOffset(@, h.length)]
          /\ touched' = [touched EXCEPT ![c] =
                @ \cup Range(offset[c], SizeofIEHeader)
                  \cup Range(offset[c] + SizeofIEHeader, h.length)]
          /\ IF compactIE
             THEN UNCHANGED << ss, entries, first >>
             ELSE \E data \in SlicesAt(offset[c] + SizeofIEHeader, h.length) :
                    LET text == Dec(h.elementId) \o ChColon \o Dec(h.length)
                                \o ChSlash \o SetW(4, Hex(crc16(data))) IN
                    /\ ss' = [ss EXCEPT ![c] = @ \o PrintComma(c) \o text]
                    /\ entries' = [entries EXCEPT ![c] =
                          Append(@, [tag |-> "IE", at |-> offset[c],
                                     id |-> h.elementId, length |-> h.length,
                                     text |-> text])]
                    /\ first' = [first EXCEPT ![c] = FALSE]
    /\ iters' = [iters EXCEPT ![c] = @ + 1]
    /\ UNCHANGED << engineVars, schema, compactIE, attrName, payload, pc >>

\* ss << '}'
IEClose(c) ==
    /\ pc[c] = "close"
    /\ ss' = [ss EXCEPT ![c] = @ \o ChRBrace]
    /\ pc' = [pc EXCEPT ![c] = "done"]
    /\ UNCHANGED << engineVars, schema, compactIE, attrName, payload, offset, first,
                    entries, touched, iters >>

\* --------------------------------------- nl80211_pattern_supportToStream

\* Buffer<nl80211_pattern_support>::getFirst(): ok iff the payload holds a
\* whole structure.
GetFirstOk == BytesLen >= SizeofPatternSupport

\* The uint32_t field at byte offset off of the first structure.
U32At(off) ==
    payload[off + 1] + 256 * payload[off + 2] + 65536 * payload[off + 3]
        + 16777216 * payload[off + 4]

\* The !ok branch without its return: the marker, then the fields of the
\* empty structure getFirst hands back.
PatInvalidFallsThrough(c) ==
    /\ pc[c] = "start"
    /\ StructFormatter(attrName) = "nl80211_pattern_supportToStream"
    /\ ~GetFirstOk
    /\ ss' = [ss EXCEPT ![c] = @ \o StrInvalid \o ChLBrace
                \o Dec(0) \o ChComma \o Dec(0) \o ChComma
                \o Dec(0) \o ChComma \o Dec(0) \o ChRBrace]
    /\ pc' = [pc EXCEPT ![c] = "done"]
    /\ UNCHANGED << engineVars, schema, compactIE, attrName, payload, offset, first,
                    entries, touched, iters >>

\* if (!ok) { ss << "invalid structure"; return; }
PatInvalid(c) ==
    /\ pc[c] = "start"
    /\ StructFormatter(attrName) = "nl80211_pattern_supportToStream"
    /\ ~GetFirstOk
    /\ ss' = [ss EXCEPT ![c] = @ \o StrInvalid]
    /\ pc' = [pc EXCEPT ![c] = "done"]
    /\ UNCHANGED << engineVars, schema, compactIE, attrName, payload, offset, first,
                    entries, touched, iters >>

\* The fields written with min_pattern_len and max_pattern_len exchanged.
PatRenderSwapped(c) ==
    /\ pc[c] = "start"
    /\ StructFormatter(attrName) = "nl80211_pattern_supportToStream"
    /\ GetFirstOk
    /\ ss' = [ss EXCEPT ![c] = @ \o ChLBrace
                \o Dec(U32At(0)) \o ChComma \o Dec(U32At(8)) \o ChComma
                \o Dec(U32At(4)) \o ChComma \o Dec(U32At(12)) \o ChRBrace]
    /\ touched' = [touched EXCEPT ![c] = @ \cup Range(0, SizeofPatternSupport)]
    /\ pc' = [pc EXCEPT ![c] = "done"]
    /\ UNCHANGED << engineVars, schema, compactIE, attrName, payload, offset, first,
                    entries, iters >>

\* ss << '{' << max_patterns << ',' << min_pattern_len << ','
\*    << max_pattern_len << ',' << max_pkt_offset << '}'
PatRender(c) ==
    /\ pc[c] = "start"
    /\ StructFormatter(attrName) = "nl80211_pattern_supportToStream"
    /\ GetFirstOk
    /\ ss' = [ss EXCEPT ![c] = @ \o ChLBrace
                \o Dec(U32At(0)) \o ChComma \o Dec(U32At(4)) \o ChComma
                \o Dec(U32At(8)) \o ChComma \o Dec(U32At(12)) \o ChRBrace]
    /\ touched' = [touched EXCEPT ![c] = @ \cup Range(0, SizeofPatternSupport)]
    /\ pc' = [pc EXCEPT ![c] = "done"]
    /\ UNCHANGED << engineVars, schema, compactIE, attrName, payload, offset, first,
                    entries, iters >>

\* -------------------------------------------------------------------- Next

\* One pass through the for statement: its end, or one iteration.
LoopStep(c) ==
        \/ IELoopEnd(c)
        \/ IEPartialHeader(c)
        \/ IEMalformed(c)
        \/ IESsid(c)
        \/ IEOther(c)

\* One step of decode call c.
CallStep(c) ==
        \/ IEBegin(c)
        \/ LoopStep(c)
        \/ IEClose(c)
        \/ PatInvalid(c)
        \/ PatRender(c)

Next == \E c \in Calls : CallStep(c)

Spec == Init /\ [][Next]_vars

\* ------------------------------------------------------- reference walk

\* The sub-elements of the payload as the wire format defines them: from
\* offset 0, a 2-byte header and length data bytes, back to back, up to
\* the first header that is cut ("partial") or whose declared data runs
\* past the payload ("malformed").
RefItems ==
    LET len == Len(payload)
        from[o \in 0..len] ==
            IF o >= len THEN << >>
            ELSE IF len - o < 2
                 THEN << [kind |-> "partial", at |-> o, id |-> 0, length |-> 0] >>
            ELSE IF 2 + payload[o + 2] > len - o
                 THEN << [kind |-> "malformed", at |-> o, id |-> payload[o + 1],
                          length |-> payload[o + 2]] >>
            ELSE << [kind |-> "element", at |-> o, id |-> payload[o + 1],
                     length |-> payload[o + 2]] >>
                 \o from[o + 2 + payload[o + 2]]
    IN from[0]

\* The reference items of one kind.
RefOfKind(kind) == { i \in 1..Len(RefItems) : RefItems[i].kind = kind }

\* The data bytes of the reference item it.
RefData(it) == SubSeq(payload, it.at + 3, it.at + 2 + it.length)

\* The texts of a sequence of entries, joined by the separator.
Join(es) ==
    LET join[k \in 0..Len(es)] ==
            IF k = 0 THEN << >>
            ELSE join[k - 1] \o (IF k > 1 THEN StrSep ELSE << >>) \o es[k].text
    IN join[Len(es)]

\* text occurs in s.
Contains(s, text) ==
    \E k \in 0..(Len(s) - Len(text)) : SubSeq(s, k + 1, k + Len(text)) = text

\* The decode calls, when the attribute is an information-elements one.
IECalls == IF attrName = "INFORMATION_ELEMENTS" THEN Calls ELSE {}

\* The decode calls, when the attribute is a pattern-support one.
PatCalls == IF attrName = "PKT_PATTERN" THEN Calls ELSE {}

\* The call has left the loop.
Left(c) == pc[c] \in {"close", "done"}

\* The header at offset o is whole and declares data running past the
\* payload: 2 + length exceeds the bytes remaining.
MalformedAt(o) ==
    /\ o < BytesLen
    /\ BytesLen - o >= 2
    /\ 2 + payload[o + 2] > BytesLen - o

\* Fewer bytes than a header remain at offset o.
DanglingAt(o) == o < BytesLen /\ BytesLen - o < 2

\* What the stream of call c holds, by the entries written so far: nothing
\* before the call, then the opening, the entries joined, and the closing.
Rendered(c) ==
    IF pc[c] = "start" THEN << >>
    ELSE ChLBrace \o CompactPrefix \o Join(entries[c])
         \o (IF pc[c] = "done" THEN ChRBrace ELSE << >>)

\* The entry of call c for the sub-element at offset o, if one was written.
EntriesAt(c, o) == { j \in 1..Len(entries[c]) : entries[c][j].at = o }

\* s ends with text.
EndsWith(s, text) ==
    Len(s) >= Len(text) /\ SubSeq(s, Len(s) - Len(text) + 1, Len(s)) = text

\* ----------------------------------------------------------------- claims

\* C1: for every information-elements payload, every 2-byte header copied
\* and every data slice [offset+2, offset+2+length) built lies inside
\* [0, payload length): no index outside the payload is touched.
C1_ReadsInsidePayload == \A c \in IECalls : touched[c] \subseteq Extent

\* C1 witness: a call has built a data slice that ends at the payload's last
\* byte, and has finished.
C1_Witness ==
    \E c \in IECalls :
        /\ pc[c] = "done"
        /\ BytesLen >= 3
        /\ touched[c] = Extent
        /\ \E i \in RefOfKind("element") :
              RefItems[i].length > 0 /\ RefItems[i].at + 2 + RefItems[i].length = BytesLen

\* C2: when a header declares a length with 2 + length above the bytes
\* remaining, exactly one "ERR" is written and the iteration stops: "ERR" is
\* only ever the last entry (so at most one), it stands at the offset the
\* loop stopped at, which is the first malformed header, every other entry
\* is a sub-element lying wholly before it, and the finished output ends
\* with ERR and the closing brace.
C2_ErrFailStop ==
    \A c \in IECalls :
        LET es == entries[c] IN
        /\ ss[c] = Rendered(c)
        /\ \A i \in 1..Len(es) :
              IF es[i].tag = "ERR"
              THEN /\ i = Len(es)
                   /\ Left(c)
                   /\ es[i].at = offset[c]
                   /\ MalformedAt(es[i].at)
              ELSE es[i].at + 2 + es[i].length <= offset[c]
        /\ (Left(c) /\ MalformedAt(offset[c])) =>
              /\ Len(es) > 0 /\ es[Len(es)].tag = "ERR"
              /\ \E i \in RefOfKind("malformed") : RefItems[i].at = offset[c]
              /\ pc[c] = "done" => EndsWith(ss[c], StrErr \o ChRBrace)
        /\ (Left(c) /\ RefOfKind("malformed") # {}) => MalformedAt(offset[c])

\* C2 witness: a finished call whose output holds an entry and then ERR.
C2_Witness ==
    \E c \in IECalls :
        /\ pc[c] = "done"
        /\ Len(entries[c]) >= 2
        /\ entries[c][Len(entries[c])].tag = "ERR"
        /\ offset[c] + 2 < BytesLen

\* C3 as stated: when a declared length exceeds the remaining buffer, the
\* output holds the marker and every sub-element preceding the truncation
\* point is present in it.
C3_AllPrecedingPresent ==
    \A c \in IECalls :
        (pc[c] = "done" /\ RefOfKind("malformed") # {}) =>
            /\ Contains(ss[c], StrErr)
            /\ \A i \in RefOfKind("element") :
                  \E j \in EntriesAt(c, RefItems[i].at) :
                      Contains(ss[c], entries[c][j].text)

\* C3 amended: when a declared length exceeds the remaining buffer, the
\* call still finishes with an output that holds the marker as its last
\* entry, and the entry of every sub-element rendered before the truncation
\* point (every SSID element and, with kCompactIE false, every other
\* element) is still in the output, in payload order, before the marker;
\* with kCompactIE true the other elements before it have no entry.
C3_RenderedPrecedingPresent ==
    \A c \in IECalls :
        (Left(c) /\ RefOfKind("malformed") # {}) =>
            LET es == entries[c] IN
            /\ ss[c] = Rendered(c)
            /\ Len(es) > 0 /\ es[Len(es)].tag = "ERR"
            /\ pc[c] = "done" => Contains(ss[c], StrErr)
            /\ \A j, k \in 1..Len(es) : j < k => es[j].at < es[k].at
            /\ \A i \in RefOfKind("element") :
                  IF RefItems[i].id = WLAN_EID_SSID \/ ~compactIE
                  THEN \E j \in EntriesAt(c, RefItems[i].at) :
                          /\ j < Len(es)
                          /\ es[j].tag # "ERR"
                          /\ Contains(ss[c], es[j].text)
                  ELSE EntriesAt(c, RefItems[i].at) = {}

\* C3 witness: in the build as compiled, a finished call whose payload has
\* an SSID element and another element before the truncated one.
C3_Witness ==
    \E c \in IECalls :
        /\ compactIE = kCompactIE
        /\ pc[c] = "done"
        /\ RefOfKind("malformed") # {}
        /\ \E i, k \in RefOfKind("element") :
              RefItems[i].id = WLAN_EID_SSID /\ RefItems[k].id # WLAN_EID_SSID
        /\ Len(entries[c]) = 2

\* C4: every well-formed sub-element with element id 0 the walk has passed
\* has the entry SSID="<its data bytes through printableOnly>" in the
\* output; the payload of one SSID element with the bytes "test" renders
\* the group with SSID="test".
C4_SsidInline ==
    \A c \in IECalls :
        /\ \A i \in RefOfKind("element") :
              (RefItems[i].id = 0 /\ RefItems[i].at < offset[c]) =>
                  \E j \in EntriesAt(c, RefItems[i].at) :
                      /\ entries[c][j].text =
                            StrSsid \o printableOnly(RefData(RefItems[i])) \o ChQuote
                      /\ Contains(ss[c], entries[c][j].text)
        /\ (payload = SsidTestPayload /\ pc[c] = "done") =>
              /\ Contains(ss[c], << 83, 83, 73, 68, 61, 34, 116, 101, 115, 116, 34 >>)
              /\ ss[c][1] = 123 /\ ss[c][Len(ss[c])] = 125

\* C4 witness: the scenario payload decoded to the end by the build as
\* compiled.
C4_Witness ==
    \E c \in IECalls :
        /\ compactIE = kCompactIE
        /\ payload = SsidTestPayload
        /\ pc[c] = "done"
        /\ Len(entries[c]) = 1

\* The entry ID:LENGTH/CRC16 of the reference item it.
SummaryOf(it) ==
    Dec(it.id) \o ChColon \o Dec(it.length) \o ChSlash
        \o SetW(4, Hex(crc16(RefData(it))))

\* s begins with text.
StartsWith(s, text) == Len(s) >= Len(text) /\ SubSeq(s, 1, Len(text)) = text

\* C5 as stated: in compact mode every non-SSID sub-element is summarized
\* by its id, length and checksum, and in the detailed mode each is
\* rendered individually: in either build every non-SSID sub-element the
\* walk has passed has its entry ID:LENGTH/CRC16 in the output.
C5_EveryOtherElementSummarized ==
    \A c \in IECalls :
        \A i \in RefOfKind("element") :
            (RefItems[i].id # WLAN_EID_SSID /\ RefItems[i].at < offset[c]) =>
                \E j \in EntriesAt(c, RefItems[i].at) :
                    /\ entries[c][j].text = SummaryOf(RefItems[i])
                    /\ Contains(ss[c], entries[c][j].text)

\* C5 amended: with kCompactIE true the formatter writes the length and the
\* checksum of the whole payload once, right after the opening brace, and
\* no entry for any non-SSID sub-element; with kCompactIE false it writes
\* no such prefix and renders each non-SSID sub-element individually as
\* ID:LENGTH/CRC16.
C5_CompactSkipsOtherElements ==
    \A c \in IECalls :
        /\ pc[c] # "start" =>
              /\ ss[c] = Rendered(c)
              /\ IF compactIE
                 THEN StartsWith(ss[c], ChLBrace \o StrLen \o Dec(Len(payload)) \o StrSep
                        \o StrCrc \o SetW(4, Hex(crc16(payload))) \o StrSep)
                 ELSE ~StartsWith(ss[c], ChLBrace \o StrLen)
        /\ \A i \in RefOfKind("element") :
              (RefItems[i].id # WLAN_EID_SSID /\ RefItems[i].at < offset[c]) =>
                  IF compactIE
                  THEN EntriesAt(c, RefItems[i].at) = {}
                  ELSE \E j \in EntriesAt(c, RefItems[i].at) :
                          /\ entries[c][j].text = SummaryOf(RefItems[i])
                          /\ Contains(ss[c], entries[c][j].text)
        /\ \A j \in 1..Len(entries[c]) :
              entries[c][j].tag = "IE" => ~compactIE

\* C5 witness: the build as compiled has decoded a payload with non-SSID
\* sub-elements to the end.
C5_Witness ==
    \E c \in IECalls :
        /\ compactIE = kCompactIE
        /\ pc[c] = "done"
        /\ \E i \in RefOfKind("element") :
              RefItems[i].id # WLAN_EID_SSID /\ RefItems[i].length > 0
        /\ RefOfKind("malformed") = {}

\* C6: given a payload shorter than nl80211_pattern_support, the formatter
\* can always run, writes exactly "invalid structure" and nothing else,
\* reads no byte of the structure, and returns.
C6_InvalidStructure ==
    \A c \in PatCalls :
        BytesLen < SizeofPatternSupport =>
            \/ pc[c] = "start" /\ ss[c] = << >> /\ touched[c] = {}
                 /\ ENABLED PatInvalid(c)
            \/ pc[c] = "done" /\ ss[c] = StrInvalid /\ touched[c] = {}

\* C6 witness: the formatter has returned on a payload one byte short of
\* the structure.
C6_Witness ==
    \E c \in PatCalls :
        /\ BytesLen = SizeofPatternSupport - 1
        /\ pc[c] = "done"
        /\ ss[c] = StrInvalid

\* C7: the loop terminates on every payload: the iterations that did not
\* exit have each advanced the offset by at least 2, the offset never
\* passes the payload's length, so there are at most floor(length / 2) of
\* them; a call in the loop can always take its next step, a call that left
\* the loop can always close the group, and a returned call has closed it.
C7_Terminates ==
    \A c \in IECalls :
        /\ 2 * iters[c] <= offset[c]
        /\ offset[c] <= BytesLen
        /\ iters[c] <= BytesLen \div 2
        /\ pc[c] = "loop" => ENABLED LoopStep(c)
        /\ pc[c] = "close" => ENABLED IEClose(c)
        /\ pc[c] = "done" => EndsWith(ss[c], ChRBrace)

\* C7 witness: a call has returned after floor(length / 2) iterations, at
\* least two.
C7_Witness ==
    \E c \in IECalls :
        /\ pc[c] = "done"
        /\ iters[c] >= 2
        /\ iters[c] = BytesLen \div 2

\* C8: when fewer than 2 bytes remain at the offset the loop stopped at,
\* it stopped silently: the output holds no ERR, no entry reaches the
\* dangling byte, the entries are exactly those of the sub-elements before
\* it that the build renders, and the stream holds them and nothing else.
C8_PartialHeaderSilent ==
    \A c \in IECalls :
        /\ (Left(c) /\ DanglingAt(offset[c])) =>
              LET es == entries[c] IN
              /\ ss[c] = Rendered(c)
              /\ \A j \in 1..Len(es) :
                    es[j].tag # "ERR" /\ es[j].at + 2 + es[j].length <= offset[c]
              /\ ~Contains(ss[c], StrErr)
              /\ Len(es) = Cardinality({ i \in RefOfKind("element") :
                                RefItems[i].id = WLAN_EID_SSID \/ ~compactIE })
        /\ (Left(c) /\ RefOfKind("partial") # {}) => DanglingAt(offset[c])

\* C8 witness: a call has returned from a payload with a sub-element and
\* one dangling byte after it.
C8_Witness ==
    \E c \in IECalls :
        /\ pc[c] = "done"
        /\ DanglingAt(offset[c])
        /\ Len(entries[c]) >= 1

\* C9: decoding is deterministic: two calls of the formatter of the
\* attribute on the same payload bytes, each into its own fresh stream,
\* end with the same output, however their steps interleave.
C9_Deterministic ==
    \A c, d \in Calls :
        (pc[c] = "done" /\ pc[d] = "done") => ss[c] = ss[d]

\* C9 witness: two calls have both returned from a payload that rendered
\* two entries.
C9_Witness ==
    /\ \A c \in IECalls : pc[c] = "done" /\ Len(entries[c]) >= 2
    /\ IECalls # {}

\* C10: the schema tables are read-only after construction: in every state
\* of every interleaving of the decode calls, the command table, the
\* attribute table and the shared iftypes map hold what the constructor built.
C10_SchemaReadOnly == schema = ConstructedSchema

\* C10 witness: the decode calls are all inside the loop at once, each
\* past its first iteration.
C10_Witness ==
    /\ \A c \in Calls : pc[c] = "loop" /\ iters[c] >= 1
    /\ StructFormatter(attrName) = "informationElementsToStream"

\* ------------------------------------------------------------ BoundedView

\* The header of an attribute: a 16-bit length and a 16-bit id.
HeaderSize == 4

\* The alignment boundary of the attribute stream.
Alignment == 4

\* The width of an attribute header's fields, in values: 2^16.
U16Mod == 65536

\* The failed view: an error, empty.
NoView == [ok |-> FALSE, base |-> 0, len |-> 0]

\* The sub-view request with the sum taken in a 16-bit word, where it wraps.
subviewWrapped(v, o, n) ==
    IF (o + n) % U16Mod > v.len THEN NoView
    ELSE [ok |-> TRUE, base |-> v.base + o, len |-> n]

\* BoundedView: the sub-view at byte offset o of length n; it fails if
\* o + n exceeds the view's length, checked without forming the sum.
subview(v, o, n) ==
    IF ~v.ok \/ o > v.len \/ n > v.len - o THEN NoView
    ELSE [ok |-> TRUE, base |-> v.base + o, len |-> n]

\* The indices of the stream a view covers, 0-based.
ViewExtent(v) == Range(v.base, v.len)

\* The bytes of the stream a view covers.
ViewBytes(v) == SubSeq(stream, v.base + 1, v.base + v.len)

\* The offsets and lengths requested: inside the buffer, one past it, and
\* the largest values of the word.
SizeValues == 0..(MaxViewLen + 1) \cup {U16Mod - 2, U16Mod - 1}

InitView ==
    /\ FormatterIdle
    /\ ResolveIdle
    /\ \E len \in 0..MaxViewLen :
          /\ stream = [i \in 1..len |-> i]
          /\ view = [ok |-> TRUE, base |-> 0, len |-> len]
    /\ stack = << >>
    /\ result = None
    /\ reads = {}
    /\ req = None

\* A sub-view of the view at hand is requested at offset o for length n;
\* if one is produced its bytes are read, and it becomes the view at hand.
SubViewRequest(o, n) ==
    LET got == subview(view, o, n) IN
    /\ req' = [kind |-> "subview", o |-> o, n |-> n, parent |-> view, got |-> got]
    /\ view' = IF got.ok THEN got ELSE view
    /\ reads' = reads \cup (IF got.ok THEN ViewExtent(got) ELSE {})
    /\ UNCHANGED << formatterVars, resolveVars, stream, stack, result >>

NextView == \E o, n \in SizeValues : SubViewRequest(o, n)

SpecView == InitView /\ [][NextView]_vars

\* ---------------------------------------------------------------- decoder

\* A 16-bit field in host (little-endian) byte order.
LE16(v) == << v % 256, v \div 256 >>

\* n rounded up to the alignment boundary.
Align(n) == ((n + Alignment - 1) \div Alignment) * Alignment

\* An attribute on the wire: the header (length covering header and
\* payload, id), the payload, the padding.
Attr(id, data) ==
    LE16(HeaderSize + Len(data)) \o LE16(id) \o data
        \o [i \in 1..(Align(Len(data)) - Len(data)) |-> 0]

\* A header alone, declaring the length declared.
Bad(id, declared) == LE16(declared) \o LE16(id)

\* The 16-bit field of the stream at index i (0-based).
U16At(i) == stream[i + 1] + 256 * stream[i + 2]

\* The payload length a header declares: its length without the header,
\* in the field's width.
DeclaredPayload(nlaLen) == (nlaLen - HeaderSize + U16Mod) % U16Mod

\* An unsigned integer in little-endian byte order.
LEValue(data) ==
    LET val[k \in 0..Len(data)] ==
            IF k = Len(data) THEN 0 ELSE data[k + 1] + 256 * val[k + 1]
    IN val[0]

\* An entry of a rendered group.
Entry(name, id, kind, value) ==
    [name |-> name, id |-> id, kind |-> kind, value |-> value]

\* The "malformed" marker.
Marker == Entry("", 0, "malformed", 0)

\* The length and checksum summary of a payload.
RawSummary(data) == [length |-> Len(data), crc |-> crc16(data)]

\* The rendering of a payload that is not Nested, by DataType.
RenderLeaf(def, id, data) ==
    CASE def.type = "Flag" -> Entry(def.name, id, "flag", 0)
      [] def.type = "Uint" /\ Len(data) \in {1, 2, 4, 8} ->
            Entry(def.name, id, "uint", LEValue(data))
      [] def.type = "String" -> Entry(def.name, id, "string", printableOnly(data))
      [] def.type = "StringNul" ->
            Entry(def.name, id, "string",
                  printableOnly(IF Len(data) > 0 /\ data[Len(data)] = 0
                                THEN SubSeq(data, 1, Len(data) - 1) ELSE data))
      [] OTHER -> Entry(def.name, id, "raw", RawSummary(data))

\* The child map a Nested definition decodes under: the empty map if it
\* names none.
ChildMap(def) ==
    IF def.ops \in DOMAIN ChildMaps THEN ChildMaps[def.ops] ELSE EmptyMap

\* A nesting level: its view, the offset in it, the map governing it, the
\* entries rendered, whether it stopped at a malformed header, and the name
\* and id of the Nested attribute it is the payload of.
Frame(v, map, name, id) ==
    [view |-> v, off |-> 0, map |-> map, entries |-> << >>, stopped |-> FALSE,
     name |-> name, id |-> id]

\* The innermost level.
Top == stack[Len(stack)]

\* The bytes remaining in the innermost level.
Remaining == Top.view.len - Top.off

\* The index in the stream of the innermost level's offset.
At == Top.view.base + Top.off

\* The innermost level replaced by f.
WithTop(f) == [stack EXCEPT ![Len(stack)] = f]

\* The decoder is called on the whole stream under the top-level map.
DecodeBegin ==
    /\ stack = << >>
    /\ result = None
    /\ stack' = << Frame([ok |-> TRUE, base |-> 0, len |-> Len(stream)],
                          TopLevelMap, "", 0) >>
    /\ UNCHANGED << formatterVars, resolveVars, viewVars, stream, result, reads >>

\* A header can be read at the offset of the innermost level.
HeaderAvailable ==
    /\ stack # << >>
    /\ ~Top.stopped
    /\ Remaining >= HeaderSize

\* The declared length combined with the header size fits what remains.
PayloadFits(nlaLen) == HeaderSize + DeclaredPayload(nlaLen) <= Remaining

\* A malformed header stopping every level being decoded.
AttrMalformedGlobal ==
    /\ HeaderAvailable
    /\ ~PayloadFits(U16At(At))
    /\ stack' = [i \in 1..Len(stack) |->
                    IF i = Len(stack)
                    THEN [Top EXCEPT !.entries = Append(@, Marker), !.stopped = TRUE]
                    ELSE [stack[i] EXCEPT !.stopped = TRUE]]
    /\ reads' = reads \cup Range(At, HeaderSize)
    /\ UNCHANGED << formatterVars, resolveVars, viewVars, stream, result >>

\* The declared length exceeds what remains: one "malformed" marker, and
\* this level stops.
AttrMalformed ==
    /\ HeaderAvailable
    /\ ~PayloadFits(U16At(At))
    /\ stack' = WithTop([Top EXCEPT !.entries = Append(@, Marker),
                                     !.stopped = TRUE])
    /\ reads' = reads \cup Range(At, HeaderSize)
    /\ UNCHANGED << formatterVars, resolveVars, viewVars, stream, result >>

\* A well-formed attribute that is not Nested: its payload is sliced out,
\* its definition resolved, the payload rendered by DataType, and the
\* offset advanced by the aligned length.
AttrLeaf ==
    /\ HeaderAvailable
    /\ PayloadFits(U16At(At))
    /\ LET id == U16At(At + 2)
           n == DeclaredPayload(U16At(At))
           slice == subview(Top.view, Top.off + HeaderSize, n)
           def == resolve(Top.map, id)
       IN /\ def.type # "Nested"
          /\ slice.ok
          /\ stack' = WithTop([Top EXCEPT
                  !.entries = Append(@, RenderLeaf(def, id, ViewBytes(slice))),
                  !.off = @ + Align(HeaderSize + n)])
          /\ reads' = reads \cup Range(At, HeaderSize) \cup ViewExtent(slice)
    /\ UNCHANGED << formatterVars, resolveVars, viewVars, stream, result >>

\* A well-formed Nested attribute: the decoder recurses into the sliced
\* payload under the definition's child map.
AttrNested ==
    /\ HeaderAvailable
    /\ PayloadFits(U16At(At))
    /\ LET id == U16At(At + 2)
           n == DeclaredPayload(U16At(At))
           slice == subview(Top.view, Top.off + HeaderSize, n)
           def == resolve(Top.map, id)
       IN /\ def.type = "Nested"
          /\ slice.ok
          /\ stack' = Append(WithTop([Top EXCEPT !.off = @ + Align(HeaderSize + n)]),
                              Frame(slice, ChildMap(def), def.name, id))
          /\ reads' = reads \cup Range(At, HeaderSize)
    /\ UNCHANGED << formatterVars, resolveVars, viewVars, stream, result >>

\* The innermost level ends, at a malformed header or where no header
\* fits: its entries are joined into one group, which is the entry of the
\* enclosing Nested attribute, or the decoder's result.
GroupEnd ==
    /\ stack # << >>
    /\ Top.stopped \/ Remaining < HeaderSize
    /\ IF Len(stack) = 1
       THEN /\ result' = Entry("", 0, "group", Top.entries)
            /\ stack' = << >>
       ELSE /\ stack' = [SubSeq(stack, 1, Len(stack) - 1) EXCEPT
                  ![Len(stack) - 1].entries =
                      Append(@, Entry(Top.name, Top.id, "group", Top.entries))]
            /\ UNCHANGED result
    /\ UNCHANGED << formatterVars, resolveVars, viewVars, stream, reads >>

\* The iftype flags STATION and AP on the wire.
FlagStation == Attr(2, << >>)
FlagAp == Attr(3, << >>)

\* The payloads of the enumerated SUPPORTED_IFTYPES attributes: none, one
\* and two flags, a flag and then a header declaring more than remains,
\* such a header alone, and a flag followed by half a header.
IfTypesInners ==
    { << >>, FlagStation, FlagStation \o FlagAp, FlagStation \o Bad(3, 8),
      Bad(2, 12), FlagStation \o << 4, 0 >> }

\* The payloads of the enumerated VENDOR_EVENTS attributes: none, one and
\* two attributes, an attribute with the id and the payload of a
\* SUPPORTED_IFTYPES one, and an attribute followed by a malformed header.
VendorInners ==
    { << >>, Attr(1, << 9 >>), Attr(1, << 9 >>) \o Attr(2, << >>),
      Attr(32, FlagStation), Attr(7, << 1, 2, 3, 4 >>) \o Bad(1, 40) }

\* The enumerated top-level attributes: integers, the default type, an
\* unknown id, Nested attributes, and headers declaring too much or less
\* than a header.
TopAttrs ==
    { Attr(46, LE32(7)), Attr(43, << 3 >>), Attr(42, << 1, 2 >>),
      Attr(99, << >>), Bad(42, 12), Bad(46, 0),
      Attr(45, Attr(0, << 97, 98 >>) \o Attr(1, << 99, 31 >>)) }
        \cup { Attr(32, inner) : inner \in IfTypesInners }
        \cup { Attr(198, inner) : inner \in VendorInners }

\* The concatenation of a sequence of byte sequences.
Concat(seqs) ==
    LET cat[k \in 0..Len(seqs)] ==
            IF k = 0 THEN << >> ELSE cat[k - 1] \o seqs[k]
    IN cat[Len(seqs)]

\* Bytes cut off the end of a stream.
Cuts == {0, 1, 3}

\* The streams decoded: up to MaxAttrs attributes back to back, whole or
\* cut short.
Streams ==
    { SubSeq(Concat(as), 1, Len(Concat(as)) - cut) :
        as \in UNION { [1..n -> TopAttrs] : n \in 0..MaxAttrs },
        cut \in Cuts }

InitDecode ==
    /\ FormatterIdle
    /\ ResolveIdle
    /\ ViewIdle
    /\ stream \in Streams
    /\ stack = << >>
    /\ result = None
    /\ reads = {}

NextDecode ==
    \/ DecodeBegin
    \/ AttrMalformed
    \/ AttrLeaf
    \/ AttrNested
    \/ GroupEnd

SpecDecode == InitDecode /\ [][NextDecode]_vars

\* ------------------------------------------------------- attribute lookup

\* The keys of the enumerated maps: the wildcard and three ids.
LookupKeys == {NoId, 0, 1, 45}

\* The entry an enumerated map holds under key k (one DataType per key).
KeyDefinition(k) ==
    [name |-> "K",
     type |-> CASE k = NoId -> "Uint" [] k = 0 -> "Flag" [] k = 1 -> "String"
              [] OTHER -> "Raw",
     ops |-> ""]

\* The maps looked into: maps of the family table, and every map over
\* LookupKeys (with and without a wildcard entry, the empty one included).
LookupMaps ==
    {IfTypesMap, ScanFrequenciesMap, ScanSsidsMap, EmptyMap}
        \cup { [k \in K |-> KeyDefinition(k)] : K \in SUBSET LookupKeys }

\* The ids looked up: small ones, the last iftype and an attribute id.
LookupIds == 0..MaxId \cup {12, 45}

InitResolve ==
    /\ FormatterIdle
    /\ DecodeIdle
    /\ ViewIdle
    /\ amap \in LookupMaps
    /\ rid = 0
    /\ rdef = None

\* One lookup: definition = map[id].
ResolveCall(id) ==
    /\ rid' = id
    /\ rdef' = resolve(amap, id)
    /\ UNCHANGED << formatterVars, decodeVars, viewVars, amap >>

NextResolve == \E id \in LookupIds : ResolveCall(id)

SpecResolve == InitResolve /\ [][NextResolve]_vars

\* The DataType values.
DataTypes == {"Default", "Flag", "Uint", "String", "Raw", "Nested", "Struct"}

\* C11: resolve(id) is total and ordered, for every id and every map: every
\* lookup can be made, and it returns the explicit entry of the id if the
\* map has one, otherwise the wildcard (no-id) entry if the map has one,
\* otherwise the built-in unknown-attribute definition; what it returns is
\* always a definition. In the child map of SCAN_SSIDS, which holds a
\* wildcard entry only, every id resolves to the SSID definition.
C11_ResolveTotalOrdered ==
    /\ \A id \in LookupIds : ENABLED ResolveCall(id)
    /\ rdef # None =>
          /\ rdef.type \in DataTypes
          /\ rid \in DOMAIN amap => rdef = amap[rid]
          /\ (rid \notin DOMAIN amap /\ NoId \in DOMAIN amap) => rdef = amap[NoId]
          /\ (rid \notin DOMAIN amap /\ NoId \notin DOMAIN amap) =>
                rdef = UnknownDefinition
          /\ amap = ScanSsidsMap => rdef.name = "SSID"

\* C11 witness: a map holding both an explicit entry for another id and a
\* wildcard entry has resolved an id it has no explicit entry for to the
\* wildcard entry.
C11_Witness ==
    /\ rdef # None
    /\ NoId \in DOMAIN amap
    /\ 0 \in DOMAIN amap
    /\ rid \notin DOMAIN amap
    /\ rdef = amap[NoId]
    /\ rdef # amap[0]

\* ---------------------------------------------- reference walk (decoder)

\* The attributes of a TLV stream as the wire format defines them: from
\* offset 0, a 4-byte header and its payload, each padded to the alignment
\* boundary, up to the end, to a cut header (no item), or to the first
\* header whose declared length does not fit what remains ("malformed").
Walk(bytes) ==
    LET len == Len(bytes)
        from[o \in Nat] ==
            IF len - o < 4 THEN << >>
            ELSE LET l == bytes[o + 1] + 256 * bytes[o + 2]
                     id == bytes[o + 3] + 256 * bytes[o + 4]
                 IN IF l < 4 \/ l > len - o
                    THEN << [kind |-> "malformed", at |-> o, id |-> id, plen |-> 0] >>
                    ELSE << [kind |-> "element", at |-> o, id |-> id,
                             plen |-> l - 4] >>
                         \o from[o + 4 * ((l + 3) \div 4)]
    IN from[0]

\* The payload bytes of item it of a stream.
ItemPayload(bytes, it) == SubSeq(bytes, it.at + 5, it.at + 4 + it.plen)

\* The entries es are those of the items: one entry per well-formed
\* attribute, in order and with its id, and the marker for the malformed
\* header, which is the last item.
GroupMatches(es, items) ==
    /\ Len(es) = Len(items)
    /\ \A i \in 1..Len(items) :
          IF items[i].kind = "malformed"
          THEN es[i].kind = "malformed" /\ i = Len(es)
          ELSE es[i].kind # "malformed" /\ es[i].id = items[i].id

\* The item is a Nested attribute of the top level.
NestedItem(it) ==
    it.kind = "element" /\ resolve(TopLevelMap, it.id).type = "Nested"

\* C12: malformation is fail-stop per nesting level. At every level being
\* decoded the marker is written at most once, as the last entry, and only
\* that level stops. In the group returned, every well-formed top-level
\* attribute has its entry, also those following a Nested attribute whose
\* payload holds a malformed header; and the group of such a Nested
\* attribute holds the entries of the inner attributes before the malformed
\* header, then one marker, and nothing after.
C12_FailStopPerLevel ==
    /\ \A k \in 1..Len(stack) :
          LET es == stack[k].entries IN
          /\ \A i \in 1..Len(es) : es[i].kind = "malformed" => i = Len(es)
          /\ stack[k].stopped <=> (Len(es) > 0 /\ es[Len(es)].kind = "malformed")
          /\ stack[k].stopped => k = Len(stack)
    /\ result # None =>
          LET items == Walk(stream) IN
          /\ GroupMatches(result.value, items)
          /\ \A i \in 1..Len(items) :
                NestedItem(items[i]) =>
                    /\ result.value[i].kind = "group"
                    /\ GroupMatches(result.value[i].value,
                                    Walk(ItemPayload(stream, items[i])))

\* C12 witness: the decoder has returned a group in which a Nested
\* attribute's group holds an entry and then the marker, and the sibling
\* that follows the Nested attribute is rendered.
C12_Witness ==
    /\ result # None
    /\ \E i \in 1..(Len(result.value) - 1) :
          /\ result.value[i].kind = "group"
          /\ Len(result.value[i].value) = 2
          /\ result.value[i].value[1].kind = "flag"
          /\ result.value[i].value[2].kind = "malformed"
          /\ result.value[i + 1].kind \in {"uint", "group"}

\* The items are all well-formed attributes.
AllElements(items) == \A k \in 1..Len(items) : items[k].kind = "element"

C13_SubViewBounded ==
    /\ reads \subseteq Range(0, Len(stream))
    /\ view.ok /\ ViewExtent(view) \subseteq Range(0, Len(stream))
    /\ req # None =>
          /\ req.o + req.n > req.parent.len =>
                /\ ~req.got.ok
                /\ req.got.len = 0
                /\ view = req.parent
          /\ req.got.ok =>
                /\ req.o <= req.parent.len
                /\ req.got.len <= req.parent.len - req.o
                /\ ViewExtent(req.got) \subseteq ViewExtent(req.parent)
                /\ ViewExtent(req.got) \subseteq reads

\* C13 witness: a request on a sub-view, whose offset and length sum past
\* the word and wrap to a value inside the view, has failed.
C13_Witness ==
    /\ req # None
    /\ req.parent.base > 0
    /\ req.parent.len > 0
    /\ req.o + req.n >= U16Mod
    /\ (req.o + req.n) % U16Mod <= req.parent.len
    /\ ~req.got.ok

\* ---------------------------------------------------------------- checksum

\* The bytes of bytes in the order perm gives.
Arranged(bytes, perm) == [i \in 1..Len(bytes) |-> bytes[perm[i]]]

\* bytes with the bytes at i and j exchanged.
Swapped(bytes, i, j) ==
    [k \in 1..Len(bytes) |->
        IF k = i THEN bytes[j] ELSE IF k = j THEN bytes[i] ELSE bytes[k]]

\* Call c has just written the opening of the group, with the payload's
\* checksum in it when kCompactIE.
JustBegun(c) == pc[c] = "loop" /\ offset[c] = 0 /\ iters[c] = 0

\* The text crc=XXXX of a byte sequence.
CrcText(bytes) == StrCrc \o SetW(4, Hex(crc16(bytes)))

\* C15 as stated: the checksum written for a payload differs from the
\* checksum of every other arrangement of the payload's bytes (every
\* permutation but those that leave the byte sequence as it is), for the
\* payloads of up to MaxLen bytes.
C15_EveryArrangementDiffers ==
    \A c \in IECalls :
        (JustBegun(c) /\ compactIE /\ Len(payload) <= MaxLen) =>
            \A perm \in Permutations(1..Len(payload)) :
                Arranged(payload, perm) # payload =>
                    crc16(Arranged(payload, perm)) # crc16(payload)

\* C15 amended: the checksum is deterministic and sensitive to the order
\* of the bytes: the calls on a payload all write the same checksum, that
\* of the payload's bytes, and exchanging any two bytes of different value
\* gives a different checksum.
C15_ExchangeChangesChecksum ==
    \A c \in IECalls :
        (JustBegun(c) /\ compactIE) =>
            /\ Contains(ss[c], CrcText(payload))
            /\ \A d \in IECalls : JustBegun(d) => ss[d] = ss[c]
            /\ \A i, j \in 1..Len(payload) :
                  (i < j /\ payload[i] # payload[j]) =>
                      /\ crc16(Swapped(payload, i, j)) # crc16(payload)
                      /\ ~Contains(ss[c], CrcText(Swapped(payload, i, j)))

\* C15 witness: the build as compiled has written the checksum of a payload
\* of three different bytes, one arrangement of which has the same
\* checksum.
C15_Witness ==
    \E c \in IECalls :
        /\ JustBegun(c)
        /\ compactIE = kCompactIE
        /\ payload = << 0, 1, 192 >>
        /\ crc16(<< 1, 192, 0 >>) = crc16(payload)
        /\ Contains(ss[c], CrcText(payload))

\* --------------------------------------------------------------- sanitizer

\* The indices of the bytes of data in the printable range 0x20..0x7E.
PrintableAt(data) == { i \in 1..Len(data) : 32 <= data[i] /\ data[i] <= 126 }

\* text holds exactly the printable bytes of data, unchanged and in order.
KeepsPrintable(text, data) ==
    /\ Len(text) = Cardinality(PrintableAt(data))
    /\ \A i \in PrintableAt(data) :
          text[Cardinality({ j \in PrintableAt(data) : j <= i })] = data[i]

\* C16: the text written between the quotes of every SSID entry holds
\* exactly the printable bytes (0x20..0x7E) of the element's data, unchanged
\* and in order, and none of the others: of the data 1F 20 00 7E 7F 't' it
\* keeps 0x20 and 0x7E, strips 0x1F and 0x7F, and goes on past the NUL to
\* the 't'.
C16_SanitizerStripsNonPrintable ==
    \A c \in IECalls :
        /\ \A i \in RefOfKind("element") :
              (RefItems[i].id = WLAN_EID_SSID /\ RefItems[i].at < offset[c]) =>
                  \E j \in EntriesAt(c, RefItems[i].at) :
                      LET text == entries[c][j].text IN
                      /\ StartsWith(text, StrSsid)
                      /\ EndsWith(text, ChQuote)
                      /\ KeepsPrintable(
                            SubSeq(text, Len(StrSsid) + 1, Len(text) - 1),
                            RefData(RefItems[i]))
        /\ (payload = SsidBoundaryPayload /\ pc[c] = "done") =>
              /\ Len(entries[c]) = 1
              /\ entries[c][1].text = StrSsid \o << 32, 126, 116 >> \o ChQuote
              /\ Contains(ss[c], StrSsid \o << 32, 126, 116 >> \o ChQuote)

\* C16 witness: the build as compiled has decoded the boundary payload to
\* the end.
C16_Witness ==
    \E c \in IECalls :
        /\ compactIE = kCompactIE
        /\ payload = SsidBoundaryPayload
        /\ pc[c] = "done"
        /\ Len(entries[c]) = 1

\* ------------------------------------------------ walk of the sub-elements

\* The well-formed sub-elements that start before offset o.
ElementsBefore(o) == { i \in RefOfKind("element") : RefItems[i].at < o }

\* C18: the sub-elements are walked with no alignment padding: the offset
\* of the loop is 0 or, after a well-formed sub-element at o with declared
\* length L, exactly o + 2 + L; every iteration visits the next header of
\* the back-to-back concatenation, none is skipped or visited twice, and
\* the loop is left only where that concatenation ends.
C18_NoAlignmentPadding ==
    \A c \in IECalls :
        /\ \/ offset[c] = 0
           \/ \E i \in RefOfKind("element") :
                 offset[c] = RefItems[i].at + 2 + RefItems[i].length
        /\ iters[c] = Cardinality(ElementsBefore(offset[c]))
        /\ Left(c) => ElementsBefore(offset[c]) = RefOfKind("element")
        /\ \A j \in 1..Len(entries[c]) :
              \E i \in 1..Len(RefItems) :
                  /\ RefItems[i].at = entries[c][j].at
                  /\ RefItems[i].kind \in {"element", "malformed"}

\* C18 witness: a call has visited a header at an offset that is no
\* multiple of 4, right behind a sub-element, and rendered it.
C18_Witness ==
    \E c \in IECalls :
        /\ pc[c] = "done"
        /\ \E j \in 1..Len(entries[c]) :
              /\ entries[c][j].at % 4 # 0
              /\ entries[c][j].tag = "SSID"
              /\ \E i \in RefOfKind("element") :
                    RefItems[i].at + 2 + RefItems[i].length = entries[c][j].at

\* ---------------------------------------------------------------- separator

\* C19 as stated: in the group the build as compiled renders, separators
\* stand only between two consecutive entries: no separator stands directly
\* before the closing brace, and the empty payload renders as the empty
\* group.
C19_SeparatorsOnlyBetweenEntries ==
    \A c \in IECalls :
        (compactIE = kCompactIE /\ pc[c] = "done") =>
            /\ ~EndsWith(ss[c], StrSep \o ChRBrace)
            /\ payload = << >> => ss[c] = ChLBrace \o ChRBrace

\* ------------------------------------------------------- pattern support

\* The 32-bit little-endian value of four bytes.
Field32(b0, b1, b2, b3) == b0 + 256 * (b1 + 256 * (b2 + 256 * b3))

\* The number of commas in a text.
Commas(text) == Cardinality({ i \in 1..Len(text) : text[i] = 44 })

\* C20: given a payload of at least sizeof(nl80211_pattern_support) bytes,
\* the formatter writes exactly '{', the four fields of the first structure
\* in the order max_patterns, min_pattern_len, max_pattern_len,
\* max_pkt_offset (the 32-bit words at bytes 0, 4, 8 and 12) separated by
\* three commas, and '}'; it reads the first structure only, whatever
\* bytes follow it.
C20_FourFieldsInOrder ==
    \A c \in PatCalls :
        (BytesLen >= SizeofPatternSupport /\ pc[c] = "done") =>
            /\ ss[c] = << 123 >>
                  \o Dec(Field32(payload[1], payload[2], payload[3], payload[4]))
                  \o << 44 >>
                  \o Dec(Field32(payload[5], payload[6], payload[7], payload[8]))
                  \o << 44 >>
                  \o Dec(Field32(payload[9], payload[10], payload[11], payload[12]))
                  \o << 44 >>
                  \o Dec(Field32(payload[13], payload[14], payload[15], payload[16]))
                  \o << 125 >>
            /\ Commas(ss[c]) = 3
            /\ touched[c] = 0..15

\* C20 witness: the formatter has returned on a payload that runs past the
\* first structure with non-zero bytes, and whose second and third fields
\* differ.
C20_Witness ==
    \E c \in PatCalls :
        /\ pc[c] = "done"
        /\ BytesLen > SizeofPatternSupport
        /\ payload[BytesLen] # 0
        /\ payload[5] # payload[9]
        /\ payload[2] # 0

\* ------------------------------------------------------ the length check

\* Call c is at a whole header: in the loop, with at least 2 bytes left.
VisitingHeader(c) == pc[c] = "loop" /\ BytesLen - offset[c] >= 2

\* The length byte of the header call c is at.
VisitedLength(c) == payload[offset[c] + 2]

\* The entries of call c that are the marker.
ErrEntries(c) == { j \in 1..Len(entries[c]) : entries[c][j].tag = "ERR" }

\* A well-formed iteration of call c.
IEWellFormed(c) == IESsid(c) \/ IEOther(c)

\* C21: the malformed check is exact at the boundary. At every whole
\* header the loop visits, 2 + length at most the bytes remaining (equal
\* to them included, and so a zero-length element in the last 2 bytes)
\* makes the well-formed iteration the one step the loop can take, and
\* 2 + length above the bytes remaining makes the malformed branch that
\* step; every sub-element that ends at the payload's last byte and that
\* the build renders has its own entry, which is not the marker; and the
\* marker ERR has been written if and only if a visited header had
\* 2 + length strictly above the bytes remaining at it.
C21_BoundaryExact ==
    \A c \in IECalls :
        /\ VisitingHeader(c) =>
              IF 2 + VisitedLength(c) <= BytesLen - offset[c]
              THEN ENABLED IEWellFormed(c) /\ ~ENABLED IEMalformed(c)
              ELSE ENABLED IEMalformed(c) /\ ~ENABLED IEWellFormed(c)
        /\ \A i \in RefOfKind("element") :
              (/\ RefItems[i].at + 2 + RefItems[i].length = BytesLen
               /\ offset[c] = BytesLen
               /\ RefItems[i].id = WLAN_EID_SSID \/ ~compactIE) =>
                  /\ EntriesAt(c, RefItems[i].at) # {}
                  /\ \A j \in EntriesAt(c, RefItems[i].at) :
                        /\ entries[c][j].tag # "ERR"
                        /\ entries[c][j].length = RefItems[i].length
                  /\ ErrEntries(c) = {}
        /\ \A j \in ErrEntries(c) :
              /\ BytesLen - entries[c][j].at >= 2
              /\ 2 + payload[entries[c][j].at + 2] > BytesLen - entries[c][j].at
        /\ \A j \in 1..Len(entries[c]) \ ErrEntries(c) :
              2 + entries[c][j].length <= BytesLen - entries[c][j].at
        /\ Left(c) =>
              (ErrEntries(c) # {} <=>
                  /\ BytesLen - offset[c] >= 2
                  /\ 2 + payload[offset[c] + 2] > BytesLen - offset[c])
        /\ pc[c] = "done" =>
              (ErrEntries(c) # {} <=> EndsWith(ss[c], StrErr \o ChRBrace))

\* C21 witness: a call has returned from a payload whose last 2 bytes are a
\* zero-length element, after an element with data: both have their entry
\* and no marker was written.
C21_Witness ==
    \E c \in IECalls :
        /\ pc[c] = "done"
        /\ BytesLen >= 5
        /\ payload[BytesLen] = 0
        /\ \E i \in RefOfKind("element") :
              /\ RefItems[i].at = BytesLen - 2
              /\ EntriesAt(c, RefItems[i].at) # {}
        /\ Len(entries[c]) = 2
        /\ ErrEntries(c) = {}

\* ------------------------------------------------------ the closed group

\* The number of opening and closing braces in a text.
Braces(text) == Cardinality({ i \in 1..Len(text) : text[i] \in {123, 125} })

\* C22: for every payload, well-formed, truncated or malformed, the text
\* the formatter appends is a complete group. Before the call the stream
\* is empty; from its first statement on the text begins with '{'; the
\* closing brace is not written before the loop is left; whichever way the
\* loop is left (its condition failing, the break after ERR, the break at a
\* dangling partial header) the next step writes '}' and returns; and the
\* text of a returned call begins with '{', ends with '}' and holds the
\* entries written in between.
C22_GroupAlwaysClosed ==
    \A c \in IECalls :
        /\ pc[c] = "start" => ss[c] = << >>
        /\ pc[c] # "start" => ss[c][1] = 123
        /\ pc[c] \in {"loop", "close"} => ss[c][Len(ss[c])] # 125
        /\ pc[c] = "loop" => ENABLED LoopStep(c)
        /\ pc[c] = "close" => ENABLED IEClose(c)
        /\ pc[c] = "done" =>
              /\ Len(ss[c]) >= 2
              /\ ss[c][1] = 123
              /\ ss[c][Len(ss[c])] = 125
              /\ ss[c] = << 123 >> \o CompactPrefix \o Join(entries[c]) \o << 125 >>
              /\ MalformedAt(offset[c]) => EndsWith(ss[c], << 69, 82, 82, 125 >>)
              /\ DanglingAt(offset[c]) => ErrEntries(c) = {}
              /\ MalformedAt(offset[c]) \/ DanglingAt(offset[c]) \/ offset[c] = BytesLen

\* C22 witness: a call has returned through the break after ERR, with an
\* entry rendered before the marker, and its text is enclosed in braces.
C22_Witness ==
    \E c \in IECalls :
        /\ pc[c] = "done"
        /\ MalformedAt(offset[c])
        /\ offset[c] > 0
        /\ Len(entries[c]) >= 2
        /\ ss[c][1] = 123
        /\ Braces(ss[c]) = 2

\* A call has returned through the break at a dangling partial header, with
\* an entry rendered before it, and its text is enclosed in braces.
ClosedAfterPartialHeader ==
    \E c \in IECalls :
        /\ pc[c] = "done"
        /\ DanglingAt(offset[c])
        /\ Len(entries[c]) >= 1
        /\ ss[c][1] = 123
        /\ ss[c][Len(ss[c])] = 125

====
